---- MODULE Spec2Model ----
(***************************************************************************)
(* A model of fileinput (src/src/lib.rs): FileInput reads a list of        *)
(* sources (files, or standard input) as one stream.  The Reader's fields  *)
(* are `sources` (pending list), `state` (the optional active              *)
(* (source, reader) pair) and `io_strat` (the opening strategy).           *)
(*                                                                         *)
(* An Option<T> is modelled as a sequence of length 0 (None) or 1 (Some).  *)
(* A reader (Box<Read>) is a record                                        *)
(*   [id, data, pos, failAt, repeat_count, kind]                           *)
(* it delivers `data` from `pos` on, and at offset `failAt` it fails       *)
(* `repeat_count` times with `kind` before going on (negative: forever),   *)
(* which is FailingIoStream when data is empty.  `id` is the number of the *)
(* open that produced it (a ghost field: it tells handles apart).          *)
(***************************************************************************)
EXTENDS Integers, Sequences, FiniteSets, TLC

\* Longest identifier list handed to the constructor.
MaxNames == 3
\* Largest buffer capacity of a read call (capacities are 1..MaxCap).
MaxCap == 2
\* Longest identifier list of the runs checked for eventual exhaustion.
MaxLiveNames == 2
\* Largest non-negative repeat_count of a FailingIoStream used on its own.
MaxRepeat == 3
\* Most read/write calls made on a FailingIoStream used on its own.
MaxStreamCalls == 5

VARIABLES
    names,      \* the identifier list the Reader was constructed from
    sources,    \* FileInput.sources
    state,      \* FileInput.state
    io_strat,   \* FileInput.io_strat
    opened,     \* history: every source handed to the strategy, in order
    out,        \* history: every byte returned to the caller, in order
    last,       \* history: the most recent read call
    prev,       \* history: summaries of the two calls before `last`
    eof,        \* history: some read call has returned Ok(0)
    failed,     \* history: some open or handle read has failed
    twin,       \* a second Reader over the same list without its empty files
    unreported, \* history: failures of opens and handle reads, less the
                \* calls that returned an error
    zeroed,     \* history: the handles whose read has returned Ok(0)
    stream,     \* a FailingIoStream used on its own, as its tests use it
    slog        \* history: the calls made on `stream`

vars == <<names, sources, state, io_strat, opened, out, last, prev, eof, failed, twin,
          unreported, zeroed, stream, slog>>

-----------------------------------------------------------------------------
(* Values *)

None == <<>>

Some(x) == <<x>>

Min(a, b) == IF a < b THEN a ELSE b

\* enum Source
Stdin == [tag |-> "Stdin", path |-> ""]

File(p) == [tag |-> "File", path |-> p]

\* io::Result<usize> of a read, with the bytes placed in the buffer
Ok(n, bytes) == [ok |-> TRUE, n |-> n, kind |-> "", bytes |-> bytes]

\* An io::Error: `kind` names its ErrorKind and, where a message matters
\* ("kind: message"), the message it was created with; the two travel together.
Err(kind) == [ok |-> FALSE, n |-> 0, kind |-> kind, bytes |-> <<>>]

-----------------------------------------------------------------------------
(* The environment: identifiers, the file system, the strategies *)

\* The identifiers a command line may name.  "1" is testdata/1,
\* "empty" is testdata/empty, "ERROR" is testdata/ERROR (not on
\* disk; FailingIo answers it with a mock), "flaky" is a file whose device
\* fails twice at offset 1, "" is the empty file name.
Idents == {"-", "1", "empty", "flaky", "ERROR", ""}

Strategies == {"IoUseStd", "FailingIo"}

\* With a test double whose stdin is a stream that fails on every read
LiveStrategies == Strategies \cup {"FailingForever"}

\* A reader over `data` that never fails.
Plain(data) ==
    [id |-> 0, data |-> data, pos |-> 0, failAt |-> 0, repeat_count |-> 0, kind |-> ""]

\* FailingIoStream::new(kind, message, repeat_count)
FailingIoStream(kind, repeat_count) ==
    [id |-> 0, data |-> <<>>, pos |-> 0, failAt |-> 0,
     repeat_count |-> repeat_count, kind |-> kind]

\* std::fs::File::open(path): the handle, or the open error
FileOpen(path) ==
    CASE path = "1"     -> [ok |-> TRUE, kind |-> "", reader |-> Plain(<<11, 12>>)]
      [] path = "empty" -> [ok |-> TRUE, kind |-> "", reader |-> Plain(<<>>)]
      [] path = "flaky" -> [ok |-> TRUE, kind |-> "",
                            reader |-> [id |-> 0, data |-> <<31, 32>>, pos |-> 0, failAt |-> 1,
                                        repeat_count |-> 2, kind |-> "Interrupted"]]
      [] OTHER          -> [ok |-> FALSE, kind |-> "NotFound", reader |-> Plain(<<>>)]

\* IoStrategy::open of IoUseStd and of the tests' FailingIo
StrategyOpen(io, path) ==
    IF io = "FailingIo" /\ path = "ERROR"
    THEN [ok |-> TRUE, kind |-> "", reader |-> FailingIoStream("InvalidData", 2)]
    ELSE FileOpen(path)

\* IoStrategy::stdin of IoUseStd and of the tests' FailingIo
StrategyStdin(io) ==
    CASE io = "FailingIo"      -> FailingIoStream("InvalidInput", 2)
      [] io = "FailingForever" -> FailingIoStream("Other", -1)
      [] OTHER                 -> Plain(<<41>>)

\* The least and the greatest i32 (repeat_count: i32)
I32Min == -2147483647 - 1
I32Max == -(I32Min + 1)

\* Faulty variant: the counter is decremented whatever its sign.
FailingIoStreamError_underflow(h) ==
    IF h.repeat_count = 0
    THEN [res |-> Ok(0, <<>>), reader |-> h]
    ELSE [res |-> Err(h.kind),
          reader |-> [h EXCEPT !.repeat_count =
                        IF @ = I32Min THEN I32Max ELSE @ - 1]]

\* FailingIoStream::error
FailingIoStreamError(h) ==
    IF h.repeat_count = 0
    THEN [res |-> Ok(0, <<>>), reader |-> h]
    ELSE [res |-> Err(h.kind),
          reader |-> [h EXCEPT !.repeat_count = IF @ > 0 THEN @ - 1 ELSE @]]

\* reader.read(buf) on the active handle: cap is buf.len(), chunk is how many
\* bytes the handle is willing to deliver in this call
HandleRead(h, cap, chunk) ==
    IF h.pos = h.failAt /\ h.repeat_count # 0
    THEN FailingIoStreamError(h)
    ELSE LET avail == Len(h.data) - h.pos
             lim   == IF h.repeat_count # 0 /\ h.pos < h.failAt
                      THEN h.failAt - h.pos ELSE avail
             n     == Min(Min(chunk, cap), lim)
         IN  [res |-> Ok(n, SubSeq(h.data, h.pos + 1, h.pos + n)),
              reader |-> [h EXCEPT !.pos = @ + n]]

-----------------------------------------------------------------------------
(* The Source Resolver *)

\* Faulty variant: "-" is not recognised and becomes a file name.
make_source_vec_nodash(filenames) ==
    IF filenames = <<>>
    THEN <<Stdin>>
    ELSE [i \in 1..Len(filenames) |-> File(filenames[i])]

make_source_vec(filenames) ==
    IF filenames = <<>>
    THEN <<Stdin>>
    ELSE [i \in 1..Len(filenames) |->
            IF filenames[i] = "-" THEN Stdin ELSE File(filenames[i])]

-----------------------------------------------------------------------------
(* The Reader.  fi is a FileInput: [sources, state, io_strat, opened]. *)

\* Faulty variant: source() forgets the active state.
source_never(st) == None

\* FileInput::source
source(st) == IF st = None THEN None ELSE Some(st[1].source)

\* self.sources.remove(0), the vector that is left
RemoveHead(srcs) == Tail(srcs)

\* Faulty variant: a source whose open failed is put back for a retry.
AfterOpenErr_retry(srcs, src) == <<src>> \o srcs

\* the pending list after an open failed on `src` (try! returns; src is dropped)
AfterOpenErr(srcs, src) == srcs

\* State { source: next_source, reader: reader }
NewState(src, reader) == [source |-> src, reader |-> reader]

\* Faulty variant: a failed read drops the active state.
AfterReadErr_drop(st, reader) == None

\* the active state after the handle's read failed (try! returns; nothing is touched)
AfterReadErr(st, reader) == Some([source |-> st[1].source, reader |-> reader])

\* Faulty variant: a zero-byte read is returned to the caller as Ok(0).
StopOnZero == FALSE

\* bytes_read == 0: self.state = None; continue
ContinueOnZero == TRUE

\* Faulty variant: a handle drained by this read is retired at once and the
\* next pending source is taken up in the same call.
AfterData_eager(fi) ==
    IF fi.state[1].reader.pos = Len(fi.state[1].reader.data) /\ fi.sources # <<>>
    THEN [fi EXCEPT !.sources = Tail(@),
                    !.state = Some([source |-> fi.sources[1], reader |-> Plain(<<>>)])]
    ELSE fi

\* return Ok(bytes_read): the Reader as the call leaves it
AfterData(fi) == fi

\* A panic of the call (Vec::remove out of bounds, Option::unwrap on None)
PanicEvent == [op |-> "panic", id |-> 0, ok |-> FALSE, n |-> 0, rc |-> 0]

\* FileInput::open_next_file: [ok, kind, fi, ev]; sources.remove(0) panics on
\* an empty vector
open_next_file(fi) ==
    IF fi.sources = <<>>
    THEN [ok |-> FALSE, kind |-> "panic", fi |-> fi, ev |-> PanicEvent]
    ELSE
    LET next_source == fi.sources[1]
        rest        == RemoveHead(fi.sources)
        id          == Len(fi.opened) + 1
        o           == IF next_source.tag = "Stdin"
                       THEN [ok |-> TRUE, kind |-> "", reader |-> StrategyStdin(fi.io_strat)]
                       ELSE StrategyOpen(fi.io_strat, next_source.path)
        reader      == [o.reader EXCEPT !.id = id]
        rec         == [source |-> next_source, ok |-> o.ok, kind |-> o.kind,
                        reader |-> reader]
    IN  IF o.ok
        THEN [ok |-> TRUE, kind |-> "",
              fi |-> [fi EXCEPT !.sources = rest,
                                !.state = Some(NewState(next_source, reader)),
                                !.opened = Append(@, rec)],
              ev |-> [op |-> "open", id |-> id, ok |-> TRUE, n |-> 0, rc |-> 0]]
        ELSE [ok |-> FALSE, kind |-> o.kind,
              fi |-> [fi EXCEPT !.sources = AfterOpenErr(rest, next_source),
                                !.opened = Append(@, rec)],
              ev |-> [op |-> "open", id |-> id, ok |-> FALSE, n |-> 0, rc |-> 0]]

\* <FileInput as Read>::read, from the Reader fi, with the events (opens and
\* handle reads) of this call so far in `trace`.  The result is
\* [fi, result, trace].  ReadLoop is the head of the loop, Opened what follows
\* try!(self.open_next_file()), Delegate the handle's read and Delivered the
\* three outcomes of that read.  A value that is computed once and used
\* several times (the open's outcome, the read's outcome, the Reader on the
\* next turn of the loop) is bound by a singleton set.
RECURSIVE ReadLoop(_, _, _, _), Opened(_, _, _, _), Delegate(_, _, _, _), Delivered(_, _, _, _, _)
\* Faulty variant: the next pending source is opened whenever one is pending,
\* also while a source is active.
ReadLoop_overlap(fi, cap, chunk, trace) ==
    IF fi.sources # <<>>
    THEN Opened(open_next_file(fi), cap, chunk, trace)
    ELSE IF fi.state = None
    THEN [fi |-> fi, result |-> Ok(0, <<>>), trace |-> trace]
    ELSE Delegate(fi, cap, chunk, trace)

ReadLoop(fi, cap, chunk, trace) ==
    IF fi.state = None
    THEN IF fi.sources = <<>>
         THEN [fi |-> fi, result |-> Ok(0, <<>>), trace |-> trace]
         ELSE CHOOSE x \in {Opened(o, cap, chunk, trace) : o \in {open_next_file(fi)}} : TRUE
    ELSE Delegate(fi, cap, chunk, trace)

\* Faulty variant: a failed open is swallowed and the loop goes on to the
\* next pending source.
Opened_swallow(o, cap, chunk, trace) ==
    IF ~o.ok
    THEN ReadLoop(o.fi, cap, chunk, Append(trace, o.ev))
    ELSE Delegate(o.fi, cap, chunk, Append(trace, o.ev))

\* Faulty variant: the open's error is not returned and the call falls
\* through to the read of the active handle.
Opened_fallthrough(o, cap, chunk, trace) ==
    Delegate(o.fi, cap, chunk, Append(trace, o.ev))

Opened(o, cap, chunk, trace) ==
    IF ~o.ok
    THEN [fi |-> o.fi, result |-> Err(o.kind), trace |-> Append(trace, o.ev)]
    ELSE Delegate(o.fi, cap, chunk, Append(trace, o.ev))

Delegate(fi, cap, chunk, trace) ==
    IF fi.state = None
    THEN [fi |-> fi, result |-> Err("panic"), trace |-> Append(trace, PanicEvent)]
    ELSE CHOOSE x \in {Delivered(fi, r, cap, chunk, trace) :
                         r \in {HandleRead(fi.state[1].reader, cap, chunk)}} : TRUE

\* Faulty variant: a zero-byte read is returned as Ok(0) and the drained
\* handle is left in place as the active state.
Delivered_keep(fi, r, cap, chunk, trace) ==
    LET t2 == Append(trace, [op |-> "read", id |-> fi.state[1].reader.id,
                             ok |-> r.res.ok, n |-> r.res.n,
                             rc |-> r.reader.repeat_count])
        st == Some([source |-> fi.state[1].source, reader |-> r.reader])
    IN  [fi |-> [fi EXCEPT !.state = st], result |-> r.res, trace |-> t2]

\* Faulty variant: a read interrupted by a signal is retried within the call.
Delivered_retry(fi, r, cap, chunk, trace) ==
    LET t2 == Append(trace, [op |-> "read", id |-> fi.state[1].reader.id,
                             ok |-> r.res.ok, n |-> r.res.n,
                             rc |-> r.reader.repeat_count])
        st == Some([source |-> fi.state[1].source, reader |-> r.reader])
    IN  IF ~r.res.ok
        THEN IF r.res.kind = "Interrupted"
             THEN ReadLoop([fi EXCEPT !.state = st], cap, chunk, t2)
             ELSE [fi |-> [fi EXCEPT !.state = st], result |-> r.res, trace |-> t2]
        ELSE IF r.res.n = 0
        THEN ReadLoop([fi EXCEPT !.state = None], cap, chunk, t2)
        ELSE [fi |-> [fi EXCEPT !.state = st], result |-> r.res, trace |-> t2]

Delivered(fi, r, cap, chunk, trace) ==
    LET t2 == Append(trace, [op |-> "read", id |-> fi.state[1].reader.id,
                             ok |-> r.res.ok, n |-> r.res.n,
                             rc |-> r.reader.repeat_count])
    IN  IF ~r.res.ok
        THEN [fi |-> [fi EXCEPT !.state = AfterReadErr(fi.state, r.reader)],
              result |-> r.res, trace |-> t2]
        ELSE IF r.res.n = 0
        THEN IF ContinueOnZero
             THEN CHOOSE x \in {ReadLoop(f, cap, chunk, t) :
                                  f \in {[fi EXCEPT !.state = None]}, t \in {t2}} : TRUE
             ELSE [fi |-> [fi EXCEPT !.state = None], result |-> r.res, trace |-> t2]
        ELSE [fi |-> AfterData([fi EXCEPT !.state =
                                  Some([source |-> fi.state[1].source, reader |-> r.reader])]),
              result |-> r.res, trace |-> t2]

-----------------------------------------------------------------------------
(* The twin Reader of the empty-source comparison *)

RECURSIVE DropEmpty(_)
DropEmpty(srcs) ==
    IF srcs = <<>> THEN <<>>
    ELSE IF Head(srcs) = File("empty") THEN DropEmpty(Tail(srcs))
    ELSE <<Head(srcs)>> \o DropEmpty(Tail(srcs))

\* The list the twin reads: the resolved list without its empty files, or the
\* resolved list itself when nothing else is in it (a Reader's list is never
\* empty at construction).
TwinSources(srcs) == IF DropEmpty(srcs) = <<>> THEN srcs ELSE DropEmpty(srcs)

-----------------------------------------------------------------------------
(* The state machine *)

\* An event of a call is an open or a handle read: [op, id, ok, n, rc], with
\* the handle's number, the outcome, the bytes a read delivered and the
\* failures the handle has left after it.
NoEvent == [op |-> "none", id |-> 0, ok |-> TRUE, n |-> 0, rc |-> 0]

\* The event a call ended with: its last open or handle read
EndOf(trace) == IF trace = <<>> THEN NoEvent ELSE trace[Len(trace)]

\* `last` before any call is made.  A call's record holds its capacity, its
\* result, its events, the Reader's state and pending list when it began,
\* whether an earlier call had returned Ok(0), and the previous call's end.
NoCall ==
    [cap |-> 0, result |-> Ok(0, <<>>), trace |-> <<>>, stateBefore |-> None,
     pending |-> <<>>, eofBefore |-> FALSE, prevEnd |-> NoEvent, made |-> FALSE]

\* The failures among a call's events, and the handles that returned Ok(0)
Failures(trace) == Cardinality({i \in 1..Len(trace) : ~trace[i].ok})

ZeroReads(trace) ==
    {trace[i].id : i \in {j \in 1..Len(trace) :
                            trace[j].op = "read" /\ trace[j].ok /\ trace[j].n = 0}}

NameLists == UNION {[1..n -> Idents] : n \in 0..MaxNames}

\* `slog` before any call on `stream`: the repeat_count it was created with,
\* the read/write calls made, those that returned an error, the last
\* operation and its result.
NoStreamLog(n0) ==
    [n0 |-> n0, calls |-> 0, errs |-> 0, op |-> "new", result |-> Ok(0, <<>>)]

\* FileInput::with_strategies(paths, io), for paths in `lists` and io in `strats`
ReaderInit(lists, strats) ==
    /\ names \in lists
    /\ io_strat \in strats
    /\ sources = make_source_vec(names)
    /\ state = None
    /\ opened = <<>>
    /\ out = <<>>
    /\ last = NoCall
    /\ prev = <<>>
    /\ eof = FALSE
    /\ failed = FALSE
    /\ twin = [sources |-> TwinSources(make_source_vec(names)), state |-> None,
               opened |-> <<>>, result |-> Ok(0, <<>>)]
    /\ unreported = 0
    /\ zeroed = {}

\* No FailingIoStream is used on its own beside a Reader.
NoStream ==
    /\ stream = FailingIoStream("Other", 0)
    /\ slog = NoStreamLog(0)

Init == ReaderInit(NameLists, Strategies) /\ NoStream

\* What is kept of a call once a later call was made: its result's kind, its
\* last event, and source() after it.
Summary(c, st) ==
    [ok |-> c.result.ok, zero |-> c.result.n = 0, kind |-> c.result.kind,
     end |-> EndOf(c.trace), src |-> source(st)]

\* The Reader's fields as one FileInput value
Reader == [sources |-> sources, state |-> state, io_strat |-> io_strat, opened |-> opened]

TwinReader ==
    [sources |-> twin.sources, state |-> twin.state, io_strat |-> io_strat,
     opened |-> twin.opened]

\* One call of read(buf) with buf.len() = cap
Read(cap, chunk) ==
    \E r \in {ReadLoop(Reader, cap, chunk, <<>>)} :
    \E tr \in {ReadLoop(TwinReader, cap, chunk, <<>>)} :
        /\ sources' = r.fi.sources
        /\ state' = r.fi.state
        /\ opened' = r.fi.opened
        /\ out' = out \o r.result.bytes
        /\ last' = [cap |-> cap, result |-> r.result, trace |-> r.trace,
                    stateBefore |-> state, pending |-> sources, eofBefore |-> eof,
                    prevEnd |-> EndOf(last.trace), made |-> TRUE]
        /\ prev' = IF ~last.made THEN <<>>
                   ELSE IF Len(prev) < 2 THEN Append(prev, Summary(last, state))
                   ELSE <<prev[2], Summary(last, state)>>
        /\ eof' = (eof \/ (r.result.ok /\ r.result.n = 0))
        /\ failed' = (failed \/ \E i \in 1..Len(r.trace) : ~r.trace[i].ok)
        /\ twin' = [sources |-> tr.fi.sources, state |-> tr.fi.state,
                    opened |-> tr.fi.opened, result |-> tr.result]
        /\ unreported' = unreported + Failures(r.trace) - (IF r.result.ok THEN 0 ELSE 1)
        /\ zeroed' = zeroed \cup ZeroReads(r.trace)
        /\ UNCHANGED <<names, io_strat, stream, slog>>

\* Faulty variant: the new FileInput is built without the active state.
IoStrategy_reset(io) ==
    /\ io # io_strat
    /\ io_strat' = io
    /\ state' = None
    /\ UNCHANGED <<names, sources, opened, out, last, prev, eof, failed, twin,
                   unreported, zeroed, stream, slog>>

\* FileInput::io_strategy(io)
IoStrategy(io) ==
    /\ io # io_strat
    /\ io_strat' = io
    /\ UNCHANGED <<names, sources, state, opened, out, last, prev, eof, failed, twin,
                   unreported, zeroed, stream, slog>>

Next ==
    \/ \E cap \in 1..MaxCap : \E chunk \in 1..cap : Read(cap, chunk)
    \/ \E io \in Strategies : IoStrategy(io)

Spec == Init /\ [][Next]_vars

-----------------------------------------------------------------------------
(* Runs in which the caller keeps calling read *)

LiveNameLists == UNION {[1..n -> Idents] : n \in 0..MaxLiveNames}

LiveInit == ReaderInit(LiveNameLists, LiveStrategies) /\ NoStream

\* Some call of read
ReadCall == \E cap \in 1..MaxCap : \E chunk \in 1..cap : Read(cap, chunk)

LiveNext ==
    \/ ReadCall
    \/ \E io \in LiveStrategies : IoStrategy(io)

\* The caller does not stop calling read while a call would change anything.
LiveSpec == LiveInit /\ [][LiveNext]_vars /\ WF_vars(ReadCall)

-----------------------------------------------------------------------------
(* A FailingIoStream used on its own (failingiostream.rs, mod test) *)

\* i32::MIN, -1 and the counts from 0 on
StreamCounts == {I32Min, -1} \cup (0..MaxRepeat)

\* The (kind, message) pairs the streams are created with
StreamKinds == {"BrokenPipe: The dog ate the ethernet cable",
                "PermissionDenied: Access denied",
                "PermissionDenied: The dog ate the ethernet cable"}

\* FailingIoStream::new(kind, message, repeat_count); the Reader is idle
StreamInit ==
    /\ ReaderInit({<<>>}, {"IoUseStd"})
    /\ \E k \in StreamKinds, n \in StreamCounts :
          /\ stream = FailingIoStream(k, n)
          /\ slog = NoStreamLog(n)

ReaderIdle ==
    UNCHANGED <<names, sources, state, io_strat, opened, out, last, prev, eof, failed,
                twin, unreported, zeroed>>

\* A call of read or write: both are self.error()
StreamCall(op) ==
    /\ \E r \in {FailingIoStreamError(stream)} :
          /\ stream' = r.reader
          /\ slog' = [slog EXCEPT !.calls = @ + 1,
                                  !.errs = IF r.res.ok THEN @ ELSE @ + 1,
                                  !.op = op, !.result = r.res]
    /\ ReaderIdle

\* <FailingIoStream as Read>::read
StreamRead ==
    /\ slog.calls < MaxStreamCalls
    /\ StreamCall("read")

\* <FailingIoStream as Write>::write
StreamWrite ==
    /\ slog.calls < MaxStreamCalls
    /\ StreamCall("write")

\* <FailingIoStream as Write>::flush
StreamFlush ==
    /\ stream' = stream
    /\ slog' = [slog EXCEPT !.op = "flush"]
    /\ ReaderIdle

StreamNext == StreamRead \/ StreamWrite \/ StreamFlush

StreamSpec == StreamInit /\ [][StreamNext]_vars

-----------------------------------------------------------------------------
(* Properties *)

Resolved == make_source_vec(names)

OpenedSources == [i \in 1..Len(opened) |-> opened[i].source]

\* The bytes the handles of `recs` hold, in order (a failed open holds none)
RECURSIVE Contents(_)
Contents(recs) ==
    IF recs = <<>> THEN <<>>
    ELSE (IF Head(recs).ok THEN Head(recs).reader.data ELSE <<>>) \o Contents(Tail(recs))

Drop(s, k) == SubSeq(s, k + 1, Len(s))

\* The number of opens among a call's events
Opens(trace) == Cardinality({i \in 1..Len(trace) : trace[i].op = "open"})

\* The bytes of the retired handles and those the active handle has delivered
Consumed ==
    IF state = None THEN Contents(opened)
    ELSE Contents(SubSeq(opened, 1, Len(opened) - 1))
         \o SubSeq(state[1].reader.data, 1, state[1].reader.pos)

\* C1. Concatenation: while no open and no read has failed, the bytes
\* returned so far are the contents of the sources opened so far, in list
\* order, up to the active handle's position; once a read has returned 0,
\* every source of the resolved list was opened, in order, and the bytes
\* returned are exactly their contents one after the other, for every
\* capacity and every chunking.
C1_Concatenation ==
    ~failed =>
        /\ out = Consumed
        /\ eof => (OpenedSources = Resolved /\ out = Contents(opened))

\* C1 witness: two different non-empty sources were read to the end without a
\* failure.
C1_Witness ==
    /\ eof /\ ~failed
    /\ Len(opened) = 2 /\ opened[1].source # opened[2].source
    /\ opened[1].reader.data # <<>> /\ opened[2].reader.data # <<>>
    /\ out = opened[1].reader.data \o opened[2].reader.data

\* C2. Terminal idempotence: once a read call has returned 0 bytes, the
\* Reader has no pending source and no active state, and every later call
\* returns Ok(0), never an error, without opening or reading anything.
C2_TerminalIdempotence ==
    /\ eof => (sources = <<>> /\ state = None)
    /\ last.eofBefore => (last.result = Ok(0, <<>>) /\ last.trace = <<>>)

\* C2 witness: three calls in a row returned Ok(0) after some data was read.
C2_Witness ==
    /\ last.eofBefore /\ Len(prev) = 2 /\ prev[1].ok /\ prev[1].zero
    /\ prev[2].ok /\ prev[2].zero /\ last.result.ok /\ out # <<>>

\* The call ended with a failed open / a failed handle read
OpenFailed(ev) == ev.op = "open" /\ ~ev.ok

ReadFailed(ev) == ev.op = "read" /\ ~ev.ok

\* The pending list is the part of the resolved list not yet handed to the
\* strategy, and what was handed to it is the part before, each position once.
ForwardOnly ==
    /\ Len(opened) <= Len(Resolved)
    /\ OpenedSources = SubSeq(Resolved, 1, Len(opened))
    /\ sources = Drop(Resolved, Len(opened))

\* C3. Open failure: a call whose open of the popped head fails returns that
\* failure; the popped source is gone from the pending list and no position
\* of the list is ever opened twice; no source is active after the call; and
\* the next call starts by opening the next pending source, or returns 0
\* when none remains.
C3_OpenFailure ==
    /\ ForwardOnly
    /\ OpenFailed(EndOf(last.trace)) =>
          /\ opened # <<>>
          /\ ~opened[Len(opened)].ok
          /\ last.result = Err(opened[Len(opened)].kind)
          /\ last.result.kind = "NotFound"
          /\ sources = Drop(last.pending, Opens(last.trace))
          /\ state = None
    /\ OpenFailed(last.prevEnd) =>
          /\ last.stateBefore = None
          /\ IF last.pending = <<>>
             THEN last.result = Ok(0, <<>>) /\ last.trace = <<>>
             ELSE /\ last.trace[1].op = "open"
                  /\ last.trace[1].id = last.prevEnd.id + 1
                  /\ opened[last.trace[1].id].source = last.pending[1]

\* C3 witness: an open failed with sources still pending, and the next call
\* opened the following source and returned its data.
C3_Witness ==
    /\ OpenFailed(last.prevEnd) /\ last.pending # <<>>
    /\ last.result.ok /\ last.result.n >= 1

\* C4. Read failure: a call whose handle read fails returns that failure and
\* leaves the same (source, handle) pair active, the handle where it was;
\* the pending list is what the opens of the call left; and the next call
\* starts by reading that same handle, opening nothing before.
C4_ReadFailure ==
    /\ ReadFailed(EndOf(last.trace)) =>
          /\ state # None
          /\ last.result = Err(state[1].reader.kind)
          /\ last.result.kind \in {"Interrupted", "InvalidData", "InvalidInput"}
          /\ state[1].reader.id = EndOf(last.trace).id
          /\ state[1].source = opened[state[1].reader.id].source
          /\ state[1].reader.data = opened[state[1].reader.id].reader.data
          /\ sources = Drop(last.pending, Opens(last.trace))
          /\ Len(last.trace) = 1 =>
                /\ last.stateBefore # None
                /\ sources = last.pending
                /\ state[1].source = last.stateBefore[1].source
                /\ state[1].reader.pos = last.stateBefore[1].reader.pos
    /\ ReadFailed(last.prevEnd) =>
          /\ last.stateBefore # None
          /\ last.trace # <<>>
          /\ last.trace[1].op = "read"
          /\ last.trace[1].id = last.prevEnd.id
          /\ last.stateBefore[1].reader.id = last.prevEnd.id

\* C4 witness: a handle that had delivered data failed a read with a source
\* still pending, and the next call read the same handle again.
C4_Witness ==
    /\ ReadFailed(last.prevEnd) /\ ReadFailed(EndOf(last.trace))
    /\ state # None /\ state[1].reader.pos >= 1 /\ sources # <<>>


\* The handle of this open fails twice at some offset and has data after it
FailsTwiceThenData(rec) ==
    rec.ok /\ rec.reader.repeat_count = 2 /\ rec.reader.failAt < Len(rec.reader.data)

\* The third most recent call ended with the first failure of such a handle
FirstOfTwoFailures ==
    /\ Len(prev) = 2
    /\ ReadFailed(prev[1].end)
    /\ prev[1].end.rc = 1
    /\ prev[1].end.id \in 1..Len(opened)
    /\ FailsTwiceThenData(opened[prev[1].end.id])

\* C5. Retry in place: when the handle of a source fails exactly twice before
\* it returns data, the call of the first failure and the next call report
\* the same failure kind, the third call returns the handle's data by one
\* read of that handle, and source() is that source after each of the three.
C5_RetryInPlace ==
    FirstOfTwoFailures =>
        LET h   == prev[1].end.id
            rec == opened[h]
        IN  /\ ~prev[1].ok /\ ~prev[2].ok
            /\ prev[1].kind = rec.reader.kind /\ prev[2].kind = prev[1].kind
            /\ ReadFailed(prev[2].end) /\ prev[2].end.id = h
            /\ last.result.ok /\ last.result.n >= 1
            /\ last.trace = <<[op |-> "read", id |-> h, ok |-> TRUE,
                               n |-> last.result.n, rc |-> 0]>>
            /\ last.result.bytes = SubSeq(rec.reader.data, rec.reader.failAt + 1,
                                          rec.reader.failAt + last.result.n)
            /\ prev[1].src = Some(rec.source)
            /\ prev[2].src = Some(rec.source)
            /\ source(state) = Some(rec.source)

\* C5 witness: the flaky file failed twice and then delivered its data, with
\* another source still pending.
C5_Witness ==
    /\ FirstOfTwoFailures
    /\ source(state) = Some(File("flaky"))
    /\ last.result.ok /\ last.result.n >= 1
    /\ sources # <<>>

\* C6. Empty-source skipping: after every call, the Reader and its twin,
\* whose list is the same without the empty files, have returned the same
\* result (count, bytes or error) and report the same source(); and the
\* empty file is never what source() reports between calls.
C6_EmptySkipping ==
    /\ twin.result = last.result
    /\ source(twin.state) = source(state)
    /\ source(state) # Some(File("empty"))

\* C6 witness: a list [A, empty, B] with A and B holding data was read to the
\* end; the Reader opened three sources and its twin two.
C6_Witness ==
    /\ Len(names) = 3 /\ names[2] = "empty"
    /\ eof /\ Len(opened) = 3 /\ Len(twin.opened) = 2
    /\ opened[1].reader.data # <<>> /\ opened[3].reader.data # <<>>
    /\ out = opened[1].reader.data \o opened[3].reader.data

\* The most recent call returned n >= 1 bytes / returned 0
ReturnedData == last.made /\ last.result.ok /\ last.result.n >= 1

ReturnedZero == last.made /\ last.result.ok /\ last.result.n = 0

\* C7. No read-ahead: a call that returns n >= 1 bytes ends with the one
\* handle read that delivered them (every read before it in the call
\* delivered 0), n is that read's count and at most the capacity, the bytes
\* are consecutive bytes of that one handle, and after the call that handle
\* is still the active one and is the last one opened: nothing was opened
\* after the read.
C7_NoReadAhead ==
    ReturnedData =>
        LET e == EndOf(last.trace)
        IN  /\ e.op = "read" /\ e.ok /\ e.n = last.result.n
            /\ \A i \in 1..(Len(last.trace) - 1) :
                  last.trace[i].op = "read" => (last.trace[i].ok /\ last.trace[i].n = 0)
            /\ last.result.n <= last.cap
            /\ Len(last.result.bytes) = last.result.n
            /\ state # None
            /\ state[1].reader.id = e.id
            /\ e.id = Len(opened)
            /\ state[1].reader.pos >= e.n
            /\ last.result.bytes = SubSeq(state[1].reader.data,
                                          state[1].reader.pos - e.n + 1,
                                          state[1].reader.pos)
            /\ sources = Drop(last.pending, Opens(last.trace))

\* C7 witness: a call returned fewer bytes than its capacity, draining its
\* handle, while another source was pending, and did not open it.
C7_Witness ==
    /\ ReturnedData
    /\ last.result.n < last.cap
    /\ state # None /\ state[1].reader.pos = Len(state[1].reader.data)
    /\ sources # <<>>

\* C8. source() is None before the first call; after a call that returned
\* n >= 1 bytes it is the source whose handle delivered them; and it is None
\* after every call that returned 0 and from then on.
C8_CurrentSource ==
    /\ ~last.made => source(state) = None
    /\ ReturnedData =>
          /\ EndOf(last.trace).id \in 1..Len(opened)
          /\ source(state) = Some(opened[EndOf(last.trace).id].source)
    /\ ReturnedZero => source(state) = None
    /\ eof => source(state) = None

\* C8 witness: a call returned data of the second source opened, which is not
\* the first one, and source() reports it.
C8_Witness ==
    /\ ReturnedData
    /\ Len(opened) = 2 /\ opened[1].source # opened[2].source
    /\ source(state) = Some(opened[2].source)

\* C9. A call returns 0 only at the end of all data: after a call with
\* capacity >= 1 that returned Ok(0), the pending list is empty, no source is
\* active, every source of the resolved list was handed to the strategy, and
\* every handle read of the call was a read of 0 bytes.
C9_ZeroOnlyAtEnd ==
    ReturnedZero =>
        /\ last.cap >= 1
        /\ sources = <<>>
        /\ state = None
        /\ OpenedSources = Resolved
        /\ \A i \in 1..Len(last.trace) :
              last.trace[i].op = "read" => (last.trace[i].ok /\ last.trace[i].n = 0)

\* C9 witness: the first call to return 0 saw the end of an active handle
\* that had delivered data and skipped a further source in the same call.
C9_Witness ==
    /\ ReturnedZero /\ ~last.eofBefore
    /\ last.stateBefore # None
    /\ Len(last.trace) >= 3
    /\ out # <<>>

\* The number of positions of s that hold x
Count(s, x) == Cardinality({i \in 1..Len(s) : s[i] = x})

\* C10. Source Resolver: the empty list and the list ["-"] both resolve to
\* [Stdin]; a non-empty list resolves to a list of the same length that
\* holds, at each position, Stdin for "-" and File(identifier) for anything
\* else, the empty string and repeated identifiers included; and that list
\* is the Reader's pending list when it is constructed.
C10_Resolver ==
    /\ make_source_vec(<<>>) = <<Stdin>>
    /\ make_source_vec(<<"-">>) = <<Stdin>>
    /\ names # <<>> =>
          /\ Len(Resolved) = Len(names)
          /\ \A i \in 1..Len(names) :
                /\ names[i] = "-" => Resolved[i] = Stdin
                /\ names[i] # "-" =>
                      Resolved[i].tag = "File" /\ Resolved[i].path = names[i]
          /\ Count(Resolved, Stdin) = Count(names, "-")
    /\ (~last.made /\ opened = <<>>) => sources = Resolved

\* C10 witness: a Reader just constructed from ["", "-", ""].
C10_Witness ==
    /\ ~last.made
    /\ names = <<"", "-", "">>
    /\ sources = <<File(""), Stdin, File("")>>

\* The kind of the failure an event stands for
KindOf(ev) ==
    IF ev.op = "open" THEN opened[ev.id].kind ELSE opened[ev.id].reader.kind

\* C11. Every failure is reported exactly once: over all calls so far, the
\* failures the strategy's opens and the handles' reads produced are as many
\* as the calls that returned an error; a call sees at most one failure,
\* which ends it; it returns an error exactly when it saw one, and the error
\* has the kind of that failure.
C11_FailuresReportedOnce ==
    /\ unreported = 0
    /\ Failures(last.trace) <= 1
    /\ \A i \in 1..Len(last.trace) : ~last.trace[i].ok => i = Len(last.trace)
    /\ ~last.result.ok <=> Failures(last.trace) = 1
    /\ ~last.result.ok =>
          /\ EndOf(last.trace).op \in {"open", "read"}
          /\ EndOf(last.trace).id \in 1..Len(opened)
          /\ last.result.kind = KindOf(EndOf(last.trace))

\* C11 witness: three calls in a row returned an error, two read failures of
\* a mock and then the open failure of the next source.
C11_Witness ==
    /\ Len(prev) = 2 /\ ~prev[1].ok /\ ~prev[2].ok /\ ~last.result.ok
    /\ prev[1].kind = "InvalidData" /\ prev[2].kind = "InvalidData"
    /\ last.result.kind = "NotFound"

\* The first source opened held data and the open of the second failed
SkipCase ==
    /\ Len(opened) >= 2
    /\ opened[1].ok /\ opened[1].reader.data # <<>>
    /\ ~opened[2].ok

\* The call took part in opening the handle numbered id
OpenedIn(trace, id) ==
    \E i \in 1..Len(trace) : trace[i].op = "open" /\ trace[i].id = id

\* C12. Open-failure skip across calls: with a list [ok1, missing, ...], ok1
\* holding data, the call that sees ok1's end of data opens `missing` in the
\* same call and returns its not-found error, not 0 (it is the second call
\* when the first took all of ok1); the next call opens the following source
\* and returns its data, or returns 0 without error when none is left; the
\* bytes returned are those of ok1 and then of ok2; and each position of the
\* list is handed to the strategy once.
C12_OpenFailureSkip ==
    /\ ForwardOnly
    /\ SkipCase =>
          /\ out = Consumed
          /\ OpenedIn(last.trace, 2) =>
                /\ Len(last.trace) = 2
                /\ last.trace[1].op = "read" /\ last.trace[1].id = 1
                /\ last.trace[1].ok /\ last.trace[1].n = 0
                /\ last.trace[2].op = "open" /\ ~last.trace[2].ok
                /\ last.result = Err(opened[2].kind)
                /\ last.result.kind = "NotFound"
          /\ (Len(prev) = 1 /\ prev[1].end.op = "read" /\ prev[1].end.id = 1
                /\ prev[1].end.n = Len(opened[1].reader.data)) =>
                (~last.result.ok /\ last.result.kind = "NotFound")
          /\ (OpenFailed(last.prevEnd) /\ last.prevEnd.id = 2) =>
                IF last.pending = <<>>
                THEN last.result = Ok(0, <<>>)
                ELSE /\ Len(opened) >= 3
                     /\ last.trace[1].op = "open" /\ last.trace[1].id = 3
                     /\ (opened[3].ok /\ opened[3].reader.repeat_count = 0
                           /\ opened[3].reader.data # <<>>) =>
                           (last.result.ok /\ last.result.n >= 1
                             /\ last.result.bytes =
                                  SubSeq(opened[3].reader.data, 1, last.result.n))
          /\ (eof /\ Len(opened) = 3 /\ opened[3].ok) =>
                out = opened[1].reader.data \o opened[3].reader.data

\* C12 witness: the list ["1", "", "1"] was read to the end.
C12_Witness ==
    /\ names = <<"1", "", "1">>
    /\ SkipCase /\ eof /\ Len(opened) = 3
    /\ out = <<11, 12, 11, 12>>

\* The three conditions of the Reader between calls
CondActive ==
    /\ state # None
    /\ state[1].reader.id \in 1..Len(opened)
    /\ state[1].reader.id \notin zeroed

CondPending == state = None /\ sources # <<>>

CondExhausted == state = None /\ sources = <<>>

\* C13. Between calls the Reader is in exactly one of three conditions: a
\* source is active and its handle has not returned Ok(0) to the Reader; no
\* source is active and some are pending; no source is active and none is
\* pending.  A handle that has returned Ok(0) is never the active one.
C13_ThreeConditions ==
    (IF CondActive THEN 1 ELSE 0) + (IF CondPending THEN 1 ELSE 0)
        + (IF CondExhausted THEN 1 ELSE 0) = 1

\* C13 witness: the active handle has delivered all its data but has not yet
\* returned Ok(0), after an earlier handle was retired.
C13_Witness ==
    /\ CondActive
    /\ state[1].reader.data # <<>>
    /\ state[1].reader.pos = Len(state[1].reader.data)
    /\ zeroed # {}

\* A step leaves the pending list alone or removes heads from it, one for
\* each source it hands to the strategy, and keeps what was handed before.
SourcesStep ==
    /\ Len(opened') >= Len(opened)
    /\ SubSeq(opened', 1, Len(opened)) = opened
    /\ Len(sources') <= Len(sources)
    /\ sources' = Drop(sources, Len(opened') - Len(opened))

\* C14. Forward-only progress: the pending list is always the suffix of the
\* resolved list that was not yet handed to the strategy, what was handed to
\* it is the prefix before, each position once; a step changes the pending
\* list only by removing the heads it opens, never grows it and puts nothing
\* back, also when the open or a read fails.
C14_ForwardOnly == []ForwardOnly /\ [][SourcesStep]_vars

\* C14 witness: after an open failure and a read failure, sources are still
\* pending.
C14_Witness ==
    /\ \E i \in 1..Len(opened) : ~opened[i].ok
    /\ ReadFailed(EndOf(last.trace))
    /\ sources # <<>> /\ Len(sources) < Len(Resolved)

\* The handles that were opened and have not returned Ok(0)
Live == {i \in 1..Len(opened) : opened[i].ok /\ i \notin zeroed}

\* The event is a read that returned Ok(0)
ZeroRead(ev) == ev.op = "read" /\ ev.ok /\ ev.n = 0

\* C15. One handle at a time: the handles opened and not yet retired are the
\* active one alone, or none when no source is active; and every open of a
\* call happens with no source active: at the start of a call that began
\* with none, or right after the read by which the handle opened before it
\* returned Ok(0).
C15_OneHandle ==
    /\ Cardinality(Live) <= 1
    /\ Live = (IF state = None THEN {} ELSE {state[1].reader.id})
    /\ \A i \in 1..Len(last.trace) :
          last.trace[i].op = "open" =>
              IF i = 1 THEN last.stateBefore = None
              ELSE /\ ZeroRead(last.trace[i - 1])
                   /\ last.trace[i - 1].id = last.trace[i].id - 1

\* C15 witness: a call retired the first handle, opened the second and read
\* data from it.
C15_Witness ==
    /\ Len(last.trace) = 3
    /\ ZeroRead(last.trace[1]) /\ last.trace[2].op = "open"
    /\ last.trace[3].op = "read" /\ last.trace[3].n >= 1
    /\ zeroed = {1} /\ Live = {2}

Reads(trace) == Cardinality({i \in 1..Len(trace) : trace[i].op = "read"})

\* The sources active or pending when the most recent call began
Remaining == Len(last.pending) + (IF last.stateBefore = None THEN 0 ELSE 1)

\* C16. Every call returns after a bounded number of steps: with k sources
\* active or pending at its start, a call reads each handle at most once, so
\* it makes at most k handle reads and at most as many opens as sources were
\* pending; every event but the last is a successful open or a read of 0
\* bytes, and each read of 0 bytes retires one of the k sources.
C16_BoundedCall ==
    last.made =>
        /\ Reads(last.trace) <= Remaining
        /\ Opens(last.trace) <= Len(last.pending)
        /\ Len(last.trace) <= 2 * Remaining
        /\ \A i, j \in 1..Len(last.trace) :
              (i < j /\ last.trace[i].op = "read" /\ last.trace[j].op = "read")
                  => last.trace[i].id # last.trace[j].id
        /\ \A i \in 1..(Len(last.trace) - 1) :
              \/ ZeroRead(last.trace[i])
              \/ last.trace[i].op = "open" /\ last.trace[i].ok
        /\ Len(sources) + (IF state = None THEN 0 ELSE 1)
              <= Remaining - Cardinality(ZeroReads(last.trace))

\* C16 witness: a call that began with three pending sources read all three
\* handles, the first two of them empty.
C16_Witness ==
    /\ last.made /\ Remaining = 3 /\ Reads(last.trace) = 3
    /\ Len(last.trace) = 6
    /\ last.result.ok /\ last.result.n >= 1

\* C18. No panic: no call ends in a panic; open_next_file is entered only
\* with a pending source and no active state, and the active handle is read
\* only when there is an active state: at the start of a call that began
\* with one, or right after a successful open.
C18_NoPanic ==
    /\ last.result.kind # "panic"
    /\ Opens(last.trace) <= Len(last.pending)
    /\ \A i \in 1..Len(last.trace) :
          /\ last.trace[i].op # "panic"
          /\ last.trace[i].op = "open" =>
                IF i = 1 THEN last.stateBefore = None ELSE ZeroRead(last.trace[i - 1])
          /\ last.trace[i].op = "read" =>
                IF i = 1 THEN last.stateBefore # None
                ELSE last.trace[i - 1].op = "open" /\ last.trace[i - 1].ok

\* C18 witness: the call after an open failure skipped an empty source and
\* read data from the one after it.
C18_Witness ==
    /\ OpenFailed(last.prevEnd)
    /\ Len(last.trace) = 4
    /\ last.result.ok /\ last.result.n >= 1

\* What the strategy io answers for a source: [ok, kind, reader]
StrategyProduct(io, src) ==
    IF src.tag = "Stdin"
    THEN [ok |-> TRUE, kind |-> "", reader |-> StrategyStdin(io)]
    ELSE StrategyOpen(io, src.path)

\* The record of an open is what the strategy io answers for its source
OpenedBy(rec, io) ==
    LET p == StrategyProduct(io, rec.source)
    IN  /\ rec.ok = p.ok
        /\ rec.kind = p.kind
        /\ [rec.reader EXCEPT !.id = 0] = p.reader

\* A step that replaces the strategy leaves the pending list, the active
\* state and every history alone; any other step, when a source is active,
\* starts by reading the active handle, and what it opens is what the
\* strategy then in place answers.
StrategyStep ==
    IF io_strat' # io_strat
    THEN /\ sources' = sources
         /\ state' = state
         /\ source(state') = source(state)
         /\ opened' = opened /\ out' = out
    ELSE /\ state # None =>
               /\ last'.trace # <<>>
               /\ last'.trace[1].op = "read"
               /\ last'.trace[1].id = state[1].reader.id
         /\ Len(opened') >= Len(opened)
         /\ \A i \in (Len(opened) + 1)..Len(opened') : OpenedBy(opened'[i], io_strat)

\* C19. io_strategy changes only the strategy: the pending list and the
\* active state, its source and its open handle, are carried over, source()
\* is the same before and after, the next call reads the handle that was
\* already open, and only what is opened afterwards comes from the new
\* strategy.
C19_StrategyOnly == [][StrategyStep]_vars

\* C19 witness: a source is active whose handle has delivered data and is
\* not what the strategy now in place answers for it: the strategy was
\* replaced while it was open.
C19_Witness ==
    /\ state # None
    /\ state[1].reader.id \in 1..Len(opened)
    /\ ~OpenedBy(opened[state[1].reader.id], io_strat)
    /\ state[1].reader.pos >= 1
    /\ sources # <<>>

\* The active handle fails on every read
Stuck ==
    /\ state # None
    /\ state[1].reader.repeat_count < 0
    /\ state[1].reader.pos = state[1].reader.failAt

\* A handle that fails on every read has been opened
ForeverOpened ==
    \E i \in 1..Len(opened) : opened[i].ok /\ opened[i].reader.repeat_count < 0

\* The Reader is on the source opened last, whose handle fails on every read
OnForever ==
    /\ Stuck
    /\ opened[Len(opened)].ok
    /\ opened[Len(opened)].reader.repeat_count < 0
    /\ source(state) = Some(opened[Len(opened)].source)
    /\ ~last.result.ok
    /\ ~eof

\* While the active handle fails on every read, a step leaves the pending
\* list, source() and the bytes returned as they are, and returns no 0.
StuckStep ==
    Stuck => (Stuck' /\ sources' = sources /\ source(state') = source(state)
               /\ out' = out /\ ~eof')

\* C17. Eventual exhaustion: when the caller keeps calling read, either some
\* call returns 0, which leaves the Reader exhausted, or the Reader comes to
\* a handle that fails on every read; so when every handle fails only
\* finitely often a call returns 0.  And once a handle that fails on every
\* read has been opened the Reader stays on that source: every call fails,
\* and the pending list and source() never change, whatever the number of
\* calls.
C17_EventualExhaustion ==
    /\ <>(eof \/ Stuck)
    /\ [](eof => (sources = <<>> /\ state = None))
    /\ [](ForeverOpened => OnForever)
    /\ [][StuckStep]_vars

\* C17 witness: after read failures and an open failure, a call returned 0.
C17_Witness ==
    /\ eof /\ unreported = 0
    /\ \E i \in 1..Len(opened) : ~opened[i].ok
    /\ \E i \in 1..Len(opened) : opened[i].ok /\ opened[i].reader.repeat_count > 0

\* C20. FailingIoStream: created with repeat_count n >= 0, its read and
\* write return the error of its kind on the first n calls and Ok(0) on every
\* later call, and the counter goes down to 0 and stays there; created with a
\* negative repeat_count, every call returns the error and the counter keeps
\* the value it was created with (it is never decremented: no underflow);
\* flush changes nothing.
C20_FailingIoStream ==
    /\ slog.n0 >= 0 =>
          /\ slog.errs = Min(slog.calls, slog.n0)
          /\ stream.repeat_count = slog.n0 - slog.errs
          /\ stream.repeat_count >= 0
          /\ slog.calls >= 1 =>
                slog.result = (IF slog.calls <= slog.n0
                               THEN Err(stream.kind) ELSE Ok(0, <<>>))
    /\ slog.n0 < 0 =>
          /\ slog.errs = slog.calls
          /\ stream.repeat_count = slog.n0
          /\ slog.calls >= 1 => slog.result = Err(stream.kind)
    /\ stream.kind \in StreamKinds \cup {"Other"}

\* C20 witness: a stream created with repeat_count 2 has failed twice and
\* then returned Ok(0) twice.
C20_Witness ==
    /\ slog.n0 = 2 /\ slog.calls = 4 /\ slog.errs = 2
    /\ slog.result = Ok(0, <<>>) /\ stream.repeat_count = 0

====
